---------------------------- MODULE Spec2Model ----------------------------
(***************************************************************************)
(* A model of src/code.py: the EmailAssistant class (rule-based priority   *)
(* and category classifiers, the provider-backed response generator with   *)
(* its fallback, process_emails) and main (load, process, sort, render).   *)
(*                                                                         *)
(* Python strings are TLA+ strings, lists are sequences, a dict is a       *)
(* record; a JSON value of the provider's payload carries a tag t naming   *)
(* its Python type, so that subscripting can fail the way it does in       *)
(* Python.  A DataFrame is its column list, its index labels and its rows. *)
(***************************************************************************)
EXTENDS Integers, Sequences, FiniteSets, TLC

VARIABLES
    pc,           \* where main (or the classifier harness) stands
    source,       \* what pd.read_csv finds at file_path
    df,           \* self.df
    series,       \* the values df.apply has collected for the response column
    reply,        \* the outbound requests.post: idle, pending, or answered with its outcome
    calls,        \* the rows for which requests.post was issued, in order
    replies,      \* the outcome the provider gave each of those calls
    classified,   \* invocations of _get_priority and _categorize_email
    stdout,       \* what was printed
    pipeline_out, \* the frame process_emails returned, before main sorts it
    rendered,     \* the rows handed to to_markdown
    subject,      \* classifier harness: the subject argument
    body,         \* classifier harness: the body argument
    priority,     \* classifier harness: what _get_priority returned
    category      \* classifier harness: what _categorize_email returned

pipeVars == <<source, df, series, reply, calls, replies, classified, stdout,
              pipeline_out, rendered>>
clsVars == <<subject, body, priority, category>>
vars == <<pc, pipeVars, clsVars>>

-----------------------------------------------------------------------------
(* Bounds of the model *)

\* rows of the CSV
MaxRows == 3
\* fragments concatenated into a subject handed to the classifiers
MaxWords == 2

-----------------------------------------------------------------------------
(* Python's str operations *)

\* one character of str.lower()
LowerChar(c) ==
    CASE c = "A" -> "a" [] c = "B" -> "b" [] c = "C" -> "c" [] c = "D" -> "d"
      [] c = "E" -> "e" [] c = "F" -> "f" [] c = "G" -> "g" [] c = "H" -> "h"
      [] c = "I" -> "i" [] c = "J" -> "j" [] c = "K" -> "k" [] c = "L" -> "l"
      [] c = "M" -> "m" [] c = "N" -> "n" [] c = "O" -> "o" [] c = "P" -> "p"
      [] c = "Q" -> "q" [] c = "R" -> "r" [] c = "S" -> "s" [] c = "T" -> "t"
      [] c = "U" -> "u" [] c = "V" -> "v" [] c = "W" -> "w" [] c = "X" -> "x"
      [] c = "Y" -> "y" [] c = "Z" -> "z" [] OTHER -> c

RECURSIVE LowerFrom(_, _)
\* the characters of s from position i on, each in lower case
LowerFrom(s, i) ==
    IF i > Len(s) THEN ""
    ELSE LowerChar(SubSeq(s, i, i)) \o LowerFrom(s, i + 1)

\* str.lower(): every cased character mapped to lower case
lower(s) == LowerFrom(s, 1)

\* keyword in text: substring containment (t is the value of text, taken once)
In(keyword, text) ==
    \E t \in {text} :
        \E i \in 1..(Len(t) - Len(keyword) + 1) :
            SubSeq(t, i, i + Len(keyword) - 1) = keyword

RECURSIVE AnyIn(_, _, _)
\* any(keyword in text for keyword in keywords), scanning from position i
AnyIn(keywords, text, i) ==
    IF i > Len(keywords) THEN FALSE
    ELSE IF In(keywords[i], text) THEN TRUE
    ELSE AnyIn(keywords, text, i + 1)

-----------------------------------------------------------------------------
(* The classifiers *)

high_priority_keywords ==
    <<"urgent", "critical", "immediate", "blocked", "downtime", "error">>
medium_priority_keywords ==
    <<"help", "support", "issue", "problem", "question", "query">>

\* text = (subject + ' ' + body).lower()
NormalizedText(subj, bod) == lower(subj \o " " \o bod)

_get_priority_MediumFirst(subj, bod) ==
    LET text == NormalizedText(subj, bod) IN
    IF AnyIn(medium_priority_keywords, text, 1) THEN "Medium"
    ELSE IF AnyIn(high_priority_keywords, text, 1) THEN "High"
    ELSE "Low"

_get_priority(subj, bod) ==
    LET text == NormalizedText(subj, bod) IN
    IF AnyIn(high_priority_keywords, text, 1) THEN "High"
    ELSE IF AnyIn(medium_priority_keywords, text, 1) THEN "Medium"
    ELSE "Low"

_categorize_email_IntegrationFirst(subj, bod) ==
    LET text == NormalizedText(subj, bod) IN
    IF In("login", text) \/ In("access", text) \/ In("password", text)
         \/ In("account", text)
    THEN "Login/Account"
    ELSE IF In("api", text) \/ In("integration", text)
    THEN "Integration"
    ELSE IF In("billing", text) \/ In("pricing", text)
         \/ In("subscription", text) \/ In("refund", text)
    THEN "Billing/Pricing"
    ELSE IF In("downtime", text) \/ In("servers", text)
    THEN "System Downtime"
    ELSE "General Inquiry"

_categorize_email(subj, bod) ==
    LET text == NormalizedText(subj, bod) IN
    IF In("login", text) \/ In("access", text) \/ In("password", text)
         \/ In("account", text)
    THEN "Login/Account"
    ELSE IF In("billing", text) \/ In("pricing", text)
         \/ In("subscription", text) \/ In("refund", text)
    THEN "Billing/Pricing"
    ELSE IF In("api", text) \/ In("integration", text)
    THEN "Integration"
    ELSE IF In("downtime", text) \/ In("servers", text)
    THEN "System Downtime"
    ELSE "General Inquiry"

-----------------------------------------------------------------------------
(* JSON values and the provider *)

Str(s) == [t |-> "str", v |-> s]
List(l) == [t |-> "list", v |-> l]
Dict(d) == [t |-> "dict", v |-> d]
\* a raised exception, as a value that propagates through what follows
Exc == [t |-> "exception"]

\* the body of a 200 answer of generateContent whose first candidate says text
Payload(text) ==
    Dict([candidates |->
        List(<<Dict([content |->
            Dict([parts |-> List(<<Dict([text |-> text])>>)])])>>)])

\* the candidate texts the provider may produce
ProviderTexts == {Str("Hello, we are on it."), Str("")}

\* what can come of requests.post(api_url, headers=..., data=...):
\* the call raising, or an HTTP answer with a status and a body
ConnectionError == [kind |-> "raise"]
Http(status, json) == [kind |-> "http", status |-> status, body |-> json]
NotJson == [t |-> "notjson"]
Outcomes ==
    {ConnectionError,
     Http(500, Payload(Str("Hello, we are on it."))),
     Http(200, NotJson),
     Http(200, Dict([candidates |-> List(<<>>)])),
     Http(200, Dict([error |-> Str("quota")]))}
    \cup {Http(200, Payload(text)) : text \in ProviderTexts}

\* v[key] of Python: KeyError on a dict without the key, TypeError elsewhere
SubKey(v, key) ==
    IF v.t = "exception" THEN v
    ELSE IF v.t = "dict" /\ key \in DOMAIN v.v THEN v.v[key]
    ELSE Exc

\* v[0] of Python: the first element of a list, the first character of a str
SubZero(v) ==
    IF v.t = "exception" THEN v
    ELSE IF v.t = "list" /\ Len(v.v) > 0 THEN v.v[1]
    ELSE IF v.t = "str" /\ Len(v.v) > 0 THEN Str(SubSeq(v.v, 1, 1))
    ELSE Exc

\* response.raise_for_status(): HTTPError for a 4xx or 5xx status
raise_for_status(outcome) ==
    IF outcome.status >= 400 /\ outcome.status < 600 THEN Exc ELSE Str("ok")

\* response.json(): ValueError when the body is no JSON
json(outcome) == IF outcome.body.t = "notjson" THEN Exc ELSE outcome.body

\* the try block of _get_ai_response from requests.post on: generated_text,
\* or Exc when any statement of it raised
TryBlock(outcome) ==
    IF outcome.kind = "raise" THEN Exc
    ELSE IF raise_for_status(outcome) = Exc THEN Exc
    ELSE SubKey(SubZero(SubKey(SubKey(SubZero(
             SubKey(json(outcome), "candidates")), "content"), "parts")), "text")

FALLBACK ==
    "Thank you for reaching out. We have received your request and will get back to you shortly."

\* _get_ai_response with except requests.RequestException in place of except
\* Exception: what post and raise_for_status raise is caught, the rest escapes
_get_ai_response_CatchRequestsOnly(outcome) ==
    IF outcome.kind = "raise" THEN Str(FALLBACK)
    ELSE IF raise_for_status(outcome) = Exc THEN Str(FALLBACK)
    ELSE TryBlock(outcome)

\* what _get_ai_response returns once the provider has answered
_get_ai_response(outcome) ==
    IF TryBlock(outcome) = Exc THEN Str(FALLBACK) ELSE TryBlock(outcome)

\* the f-string process_emails hands to _get_ai_response as prompt
Prompt(row) ==
    "Draft a response to the following email from " \o row["sender"]
        \o " regarding '" \o row["subject"] \o "':"

-----------------------------------------------------------------------------
(* The data source and the DataFrame *)

\* rows of the CSV: records with the fields sender, subject, body
Emails ==
    {[sender |-> "a@x.com", subject |-> "Urgent: server downtime",
      body |-> "our servers are down"],
     [sender |-> "b@x.com", subject |-> "Question about billing",
      body |-> "how much is the subscription"],
     [sender |-> "c@x.com", subject |-> "hello",
      body |-> "just checking in"]}

RECURSIVE SeqsUpTo(_, _)
\* the sequences over S of length at most n
SeqsUpTo(S, n) ==
    IF n = 0 THEN {<<>>}
    ELSE LET shorter == SeqsUpTo(S, n - 1) IN
         shorter \cup {Append(q, x) : q \in {r \in shorter : Len(r) = n - 1}, x \in S}

\* what pd.read_csv(file_path) can find: a failure, or a table
Sources ==
    {[ok |-> FALSE, rows |-> <<>>, error |-> e] : e \in {"unreachable", "unparseable"}}
    \cup {[ok |-> TRUE, rows |-> r, error |-> ""] : r \in SeqsUpTo(Emails, MaxRows)}

\* pd.DataFrame()
EmptyFrame == [columns |-> <<>>, index |-> <<>>, rows |-> <<>>]

\* pd.read_csv of a table: the header's columns, a RangeIndex, the rows
read_csv(src) ==
    [columns |-> <<"sender", "subject", "body">>,
     index |-> [i \in 1..Len(src.rows) |-> i - 1],
     rows |-> src.rows]

\* df.empty: some axis has length 0
empty(frame) == Len(frame.columns) = 0 \/ Len(frame.index) = 0

HasColumn(frame, name) == \E c \in 1..Len(frame.columns) : frame.columns[c] = name

\* df[name] = values
SetColumn(frame, name, values) ==
    [columns |-> IF HasColumn(frame, name) THEN frame.columns
                 ELSE Append(frame.columns, name),
     index |-> frame.index,
     rows |-> [i \in 1..Len(frame.rows) |->
                  [c \in (DOMAIN frame.rows[i]) \cup {name} |->
                      IF c = name THEN values[i] ELSE frame.rows[i][c]]]]

-----------------------------------------------------------------------------
(* main and process_emails *)

IdleReply == [state |-> "idle"]
PendingReply == [state |-> "pending"]
Answered(outcome) == [state |-> "answered", outcome |-> outcome]

Init ==
    /\ pc = "main"
    /\ source \in Sources
    /\ df = EmptyFrame
    /\ series = <<>>
    /\ reply = IdleReply
    /\ calls = <<>>
    /\ replies = <<>>
    /\ classified = 0
    /\ stdout = <<>>
    /\ pipeline_out = EmptyFrame
    /\ rendered = <<>>
    /\ subject = ""
    /\ body = ""
    /\ priority = "unset"
    /\ category = "unset"

\* assistant = EmailAssistant(file_path): read_csv, or an empty frame when it raises
EmailAssistant_init ==
    /\ pc = "main"
    /\ IF source.ok
       THEN /\ df' = read_csv(source)
            /\ stdout' = stdout \o <<"Initializing AI Email Assistant", "Processing emails...">>
       ELSE /\ df' = EmptyFrame
            /\ stdout' = stdout \o <<"Initializing AI Email Assistant",
                                     "Error loading data from source",
                                     "Processing emails...">>
    /\ pc' = "process_emails"
    /\ UNCHANGED <<source, series, reply, calls, replies, classified,
                   pipeline_out, rendered, clsVars>>

\* process_emails on an empty frame: print and return self.df
process_emails_empty ==
    /\ pc = "process_emails"
    /\ empty(df)
    /\ stdout' = Append(stdout, "No data to process. Exiting.")
    /\ pipeline_out' = df
    /\ pc' = "sort"
    /\ UNCHANGED <<source, df, series, reply, calls, replies, classified,
                   rendered, clsVars>>

RECURSIVE DropDuplicates(_)
\* rows without the repetitions of an earlier row
DropDuplicates(rows) ==
    IF rows = <<>> THEN <<>>
    ELSE LET front == DropDuplicates(SubSeq(rows, 1, Len(rows) - 1))
             last == rows[Len(rows)]
         IN  IF \E k \in 1..Len(front) : front[k] = last THEN front
             ELSE Append(front, last)

\* apply_priority on self.df.drop_duplicates()
apply_priority_DropDuplicates ==
    /\ pc = "process_emails"
    /\ ~empty(df)
    /\ LET kept == DropDuplicates(df.rows)
           frame == [columns |-> df.columns,
                     index |-> [i \in 1..Len(kept) |-> i - 1],
                     rows |-> kept]
       IN  /\ df' = SetColumn(frame, "priority",
                      [i \in 1..Len(kept) |->
                          _get_priority(kept[i]["subject"], kept[i]["body"])])
           /\ classified' = classified + Len(kept)
    /\ pc' = "category"
    /\ UNCHANGED <<source, series, reply, calls, replies, stdout,
                   pipeline_out, rendered, clsVars>>

\* self.df['priority'] = self.df.apply(lambda row: self._get_priority(...), axis=1)
apply_priority ==
    /\ pc = "process_emails"
    /\ ~empty(df)
    /\ df' = SetColumn(df, "priority",
                [i \in 1..Len(df.rows) |->
                    _get_priority(df.rows[i]["subject"], df.rows[i]["body"])])
    /\ classified' = classified + Len(df.rows)
    /\ pc' = "category"
    /\ UNCHANGED <<source, series, reply, calls, replies, stdout,
                   pipeline_out, rendered, clsVars>>

\* self.df['category'] = self.df.apply(lambda row: self._categorize_email(...), axis=1)
apply_category ==
    /\ pc = "category"
    /\ df' = SetColumn(df, "category",
                [i \in 1..Len(df.rows) |->
                    _categorize_email(df.rows[i]["subject"], df.rows[i]["body"])])
    /\ classified' = classified + Len(df.rows)
    /\ pc' = "response"
    /\ UNCHANGED <<source, series, reply, calls, replies, stdout,
                   pipeline_out, rendered, clsVars>>

\* _get_ai_response for the next row of the apply, up to requests.post being sent
requests_post ==
    /\ pc = "response"
    /\ LET row == df.rows[Len(series) + 1] IN
       calls' = Append(calls, [row |-> Len(series) + 1, prompt |-> Prompt(row),
                               context |-> row["body"]])
    /\ reply' = PendingReply
    /\ pc' = "await"
    /\ UNCHANGED <<source, df, series, replies, classified, stdout,
                   pipeline_out, rendered, clsVars>>

\* the provider answers the pending call (nothing makes it do so: no timeout is set)
provider_answers ==
    /\ pc = "await"
    /\ reply = PendingReply
    /\ \E outcome \in Outcomes :
        /\ reply' = Answered(outcome)
        /\ replies' = Append(replies, outcome)
    /\ UNCHANGED <<pc, source, df, series, calls, classified, stdout,
                   pipeline_out, rendered, clsVars>>

\* _get_ai_response_returns with the except branch posting the request again
_get_ai_response_returns_Retry ==
    /\ pc = "await"
    /\ reply.state = "answered"
    /\ IF TryBlock(reply.outcome) = Exc
       THEN /\ stdout' = Append(stdout, "API call failed. Retrying.")
            /\ pc' = "response"
            /\ UNCHANGED <<df, pipeline_out, series>>
       ELSE LET collected == Append(series, TryBlock(reply.outcome)) IN
            /\ stdout' = stdout
            /\ IF Len(collected) = Len(df.rows)
               THEN /\ df' = SetColumn(df, "response", collected)
                    /\ pipeline_out' = df'
                    /\ series' = <<>>
                    /\ pc' = "sort"
               ELSE /\ series' = collected
                    /\ pc' = "response"
                    /\ UNCHANGED <<df, pipeline_out>>
    /\ reply' = IdleReply
    /\ UNCHANGED <<source, calls, replies, classified, rendered, clsVars>>

\* the rest of _get_ai_response, and of the apply once its last row is done:
\* self.df['response'] = ...; return self.df
_get_ai_response_returns ==
    /\ pc = "await"
    /\ reply.state = "answered"
    /\ LET result == _get_ai_response(reply.outcome)
           collected == Append(series, result)
       IN  /\ stdout' = IF TryBlock(reply.outcome) = Exc
                        THEN Append(stdout, "API call failed. Using a fallback response.")
                        ELSE stdout
           /\ IF Len(collected) = Len(df.rows)
              THEN /\ df' = SetColumn(df, "response", collected)
                   /\ pipeline_out' = df'
                   /\ series' = <<>>
                   /\ pc' = "sort"
              ELSE /\ series' = collected
                   /\ pc' = "response"
                   /\ UNCHANGED <<df, pipeline_out>>
    /\ reply' = IdleReply
    /\ UNCHANGED <<source, calls, replies, classified, rendered, clsVars>>

\* the order a sort of the priority strings themselves would use
categories_Lexicographic == <<"High", "Low", "Medium">>

\* pd.Categorical(..., categories=['High', 'Medium', 'Low'], ordered=True)
categories == <<"High", "Medium", "Low">>

\* the code of a value of the categorical: its place in categories, -1 for NaN
code(value) ==
    IF \E k \in 1..Len(categories) : categories[k] = value
    THEN (CHOOSE k \in 1..Len(categories) : categories[k] = value) - 1
    ELSE -1

\* the key sort_values orders by: the code, NaN last
SortKey(value) == IF code(value) = -1 THEN Len(categories) ELSE code(value)

\* the orders sort_values(by='priority') may leave the rows in: kind defaults to
\* 'quicksort', which orders by key and promises nothing about equal keys
SortedOrders(frame) ==
    {p \in Permutations(1..Len(frame.rows)) :
        \A i, j \in 1..Len(frame.rows) :
            i < j => SortKey(frame.rows[p[i]]["priority"])
                        <= SortKey(frame.rows[p[j]]["priority"])}

\* main, line 162, on a frame without a priority column: KeyError, uncaught
main_sort_KeyError ==
    /\ pc = "sort"
    /\ ~HasColumn(df, "priority")
    /\ stdout' = Append(stdout, "Traceback: KeyError: 'priority'")
    /\ pc' = "crashed"
    /\ UNCHANGED <<source, df, series, reply, calls, replies, classified,
                   pipeline_out, rendered, clsVars>>

\* main, lines 162-164: the categorical priority and sort_values(inplace=True)
main_sort_values ==
    /\ pc = "sort"
    /\ HasColumn(df, "priority")
    /\ \E p \in SortedOrders(df) :
        df' = [columns |-> df.columns,
               index |-> [i \in 1..Len(df.index) |-> df.index[p[i]]],
               rows |-> [i \in 1..Len(df.rows) |-> df.rows[p[i]]]]
    /\ pc' = "render"
    /\ UNCHANGED <<source, series, reply, calls, replies, classified, stdout,
                   pipeline_out, rendered, clsVars>>

dashboard_columns == <<"sender", "subject", "priority", "category", "response">>

\* main, lines 166-167: the dashboard's columns of the sorted frame, printed
main_to_markdown ==
    /\ pc = "render"
    /\ IF \A c \in 1..Len(dashboard_columns) : HasColumn(df, dashboard_columns[c])
       THEN /\ rendered' = [i \in 1..Len(df.rows) |->
                    [c \in {dashboard_columns[k] : k \in 1..Len(dashboard_columns)} |->
                        df.rows[i][c]]]
            /\ stdout' = Append(stdout, "--- Processed Emails Dashboard ---")
            /\ pc' = "done"
       ELSE /\ stdout' = stdout \o <<"--- Processed Emails Dashboard ---",
                                     "Traceback: KeyError">>
            /\ pc' = "crashed"
            /\ UNCHANGED rendered
    /\ UNCHANGED <<source, df, series, reply, calls, replies, classified,
                   pipeline_out, clsVars>>

\* the steps the program takes by itself
ProgramStep ==
    \/ EmailAssistant_init
    \/ process_emails_empty
    \/ apply_priority
    \/ apply_category
    \/ requests_post
    \/ _get_ai_response_returns
    \/ main_sort_KeyError
    \/ main_sort_values
    \/ main_to_markdown

Next == ProgramStep \/ provider_answers

Spec == Init /\ [][Next]_vars

\* the program's own steps are taken when they can be; the provider owes nothing
FairSpec ==
    /\ Spec
    /\ WF_vars(EmailAssistant_init)
    /\ WF_vars(process_emails_empty)
    /\ WF_vars(apply_priority)
    /\ WF_vars(apply_category)
    /\ WF_vars(requests_post)
    /\ WF_vars(_get_ai_response_returns)
    /\ WF_vars(main_sort_KeyError)
    /\ WF_vars(main_sort_values)
    /\ WF_vars(main_to_markdown)

-----------------------------------------------------------------------------
(* The classifiers on their own: _get_priority and _categorize_email applied *)
(* to a subject and a body drawn from fragments that hold the keywords in    *)
(* either case, split across fragments, and inside longer words.             *)

SubjectWords ==
    {"URGENT ", "Help", "ur", "gent", "Log", "in", "Billing ", "API",
     "Supporter ", "hello "}

Bodies ==
    {"", "urgent", "Critical", "immediate", "blocked", "downtime", "Error",
     "help", "support", "issue", "problem", "question", "query",
     "login", "access", "password", "account",
     "billing", "pricing", "subscription", "refund",
     "api", "integration", "servers",
     "just checking in", "gent", "lowered", "or"}

RECURSIVE Concatenations(_, _)
\* the strings made of at most n of the words
Concatenations(words, n) ==
    IF n = 0 THEN {""}
    ELSE LET shorter == Concatenations(words, n - 1) IN
         shorter \cup {s \o w : s \in shorter, w \in words}

ClassifyInit ==
    /\ pc = "classify"
    /\ subject \in Concatenations(SubjectWords, MaxWords)
    /\ body \in Bodies
    /\ priority = "unset"
    /\ category = "unset"
    /\ source = [ok |-> TRUE, rows |-> <<>>, error |-> ""]
    /\ df = EmptyFrame
    /\ series = <<>>
    /\ reply = IdleReply
    /\ calls = <<>>
    /\ replies = <<>>
    /\ classified = 0
    /\ stdout = <<>>
    /\ pipeline_out = EmptyFrame
    /\ rendered = <<>>

\* priority = self._get_priority(subject, body)
call_get_priority ==
    /\ pc = "classify"
    /\ priority' = _get_priority(subject, body)
    /\ pc' = "prioritized"
    /\ UNCHANGED <<subject, body, category, pipeVars>>

\* category = self._categorize_email(subject, body)
call_categorize_email ==
    /\ pc = "prioritized"
    /\ category' = _categorize_email(subject, body)
    /\ pc' = "categorized"
    /\ UNCHANGED <<subject, body, priority, pipeVars>>

ClassifyNext == call_get_priority \/ call_categorize_email

ClassifySpec == ClassifyInit /\ [][ClassifyNext]_vars

-----------------------------------------------------------------------------
(* What the claims are stated in *)

UpperCase == "ABCDEFGHIJKLMNOPQRSTUVWXYZ"
LowerCase == "abcdefghijklmnopqrstuvwxyz"

\* character c is the lower-case letter d, or its capital
IsLetter(c, d) ==
    \/ c = d
    \/ \E n \in 1..Len(LowerCase) :
          SubSeq(LowerCase, n, n) = d /\ SubSeq(UpperCase, n, n) = c

\* keyword occurs in text, letter case aside
Occurs(keyword, text) ==
    \E i \in 1..(Len(text) - Len(keyword) + 1) :
        \A j \in 1..Len(keyword) :
            IsLetter(SubSeq(text, i + j - 1, i + j - 1), SubSeq(keyword, j, j))

OccursAny(keywords, text) == \E k \in keywords : Occurs(k, text)

HighKeywords == {"urgent", "critical", "immediate", "blocked", "downtime", "error"}
MediumKeywords == {"help", "support", "issue", "problem", "question", "query"}
LoginAccountKeywords == {"login", "access", "password", "account"}
BillingPricingKeywords == {"billing", "pricing", "subscription", "refund"}
IntegrationKeywords == {"api", "integration"}
SystemDowntimeKeywords == {"downtime", "servers"}

\* the text the harness classifies
GivenText == subject \o " " \o body

(* C1: for every subject and body, _get_priority returns exactly one of High,
   Medium, Low: High whenever the text holds a High keyword (whatever Medium
   keywords it also holds), Medium exactly when it holds no High keyword and
   some Medium keyword, Low exactly when it holds neither. *)
C1_PriorityByKeywords ==
    pc \in {"prioritized", "categorized"} =>
        LET high == OccursAny(HighKeywords, GivenText)
            medium == OccursAny(MediumKeywords, GivenText)
        IN  /\ priority \in {"High", "Medium", "Low"}
            /\ high => priority = "High"
            /\ (priority = "Medium") <=> (~high /\ medium)
            /\ (priority = "Low") <=> (~high /\ ~medium)

\* a text with a High and a Medium keyword, in capitals, was given priority High
C1_Witness ==
    /\ pc = "prioritized"
    /\ subject = "URGENT Help"
    /\ body = "question"
    /\ priority = "High"

(* C2: for every subject and body, _categorize_email returns the label of the
   first keyword set, in the order Login/Account, Billing/Pricing, Integration,
   System Downtime, with a member in the text, and General Inquiry if and only
   if no member of any of the four occurs; billing with api is Billing/Pricing. *)
C2_CategoryByFirstMatch ==
    pc = "categorized" =>
        LET login == OccursAny(LoginAccountKeywords, GivenText)
            billing == OccursAny(BillingPricingKeywords, GivenText)
            integration == OccursAny(IntegrationKeywords, GivenText)
            downtime == OccursAny(SystemDowntimeKeywords, GivenText)
        IN  /\ login => category = "Login/Account"
            /\ (~login /\ billing) => category = "Billing/Pricing"
            /\ (~login /\ ~billing /\ integration) => category = "Integration"
            /\ (~login /\ ~billing /\ ~integration /\ downtime)
                  => category = "System Downtime"
            /\ (category = "General Inquiry")
                  <=> ~(login \/ billing \/ integration \/ downtime)
            /\ (Occurs("billing", GivenText) /\ Occurs("api", GivenText) /\ ~login)
                  => category = "Billing/Pricing"

\* a text with both billing and api was categorized Billing/Pricing
C2_Witness ==
    /\ pc = "categorized"
    /\ subject = "Billing API"
    /\ body = "integration"
    /\ category = "Billing/Pricing"

-----------------------------------------------------------------------------
(* The pipeline's claims *)

\* process_emails has returned
Processed == pc \in {"sort", "render", "done", "crashed"}

\* the provider answered 200 with a payload of the expected shape
WellFormed(outcome) ==
    /\ outcome.kind = "http"
    /\ outcome.status = 200
    /\ \E text \in ProviderTexts : outcome.body = Payload(text)

\* the call failed: it raised, had a bad status, or an unexpected payload
Failed(outcome) == ~WellFormed(outcome)

FirstCandidateText(outcome) ==
    CHOOSE text \in ProviderTexts : outcome.body = Payload(text)

\* the priority and the category each data-source row is to get
ExpectedPriority(subj) ==
    CASE subj = "Urgent: server downtime" -> "High"
      [] subj = "Question about billing" -> "Medium"
      [] subj = "hello" -> "Low"

ExpectedCategory(subj) ==
    CASE subj = "Urgent: server downtime" -> "System Downtime"
      [] subj = "Question about billing" -> "Billing/Pricing"
      [] subj = "hello" -> "General Inquiry"

(* C3: _get_ai_response never fails and always returns a non-empty string,
   whatever the provider call did: raised, bad status, unexpected payload, or
   a well-formed payload with any text. *)
C3_ResponseAlwaysNonEmpty ==
    /\ \A i \in 1..Len(series) : series[i].t = "str" /\ series[i].v # ""
    /\ HasColumn(pipeline_out, "response") =>
          \A i \in 1..Len(pipeline_out.rows) :
              /\ pipeline_out.rows[i]["response"].t = "str"
              /\ pipeline_out.rows[i]["response"].v # ""

(* C4: on a non-empty input, whichever provider calls fail, process_emails
   runs to the last record; a failed record's response is the fallback text,
   any other record's response is the first candidate text the provider gave
   for it, and every record's priority and category are what they are when
   nothing fails. *)
C4_FailuresAbsorbedPerRecord ==
    source.rows # <<>> =>
        /\ pc # "crashed"
        /\ Processed =>
            /\ Len(pipeline_out.rows) = Len(source.rows)
            /\ Len(replies) = Len(source.rows)
            /\ \A i \in 1..Len(source.rows) :
                LET row == pipeline_out.rows[i] IN
                /\ row["response"] =
                      IF Failed(replies[i])
                      THEN Str("Thank you for reaching out. We have received your request and will get back to you shortly.")
                      ELSE FirstCandidateText(replies[i])
                /\ row["priority"] = ExpectedPriority(source.rows[i].subject)
                /\ row["category"] = ExpectedCategory(source.rows[i].subject)

\* three records processed, the first and last calls failed in different ways,
\* the second did not
C4_Witness ==
    /\ pc = "sort"
    /\ Len(source.rows) = 3
    /\ replies[1] = ConnectionError
    /\ WellFormed(replies[2])
    /\ replies[3] = Http(200, Dict([candidates |-> List(<<>>)]))
    /\ pipeline_out.rows[2]["response"] = Str("Hello, we are on it.")

(* C5: process_emails yields one enriched record per input record, in input
   order, each with the sender, subject and body of its input record; on an
   empty input it returns an empty frame and prints that there is nothing to
   process, without calling a classifier or the provider. *)
C5_OneRecordPerInput ==
    Processed =>
        /\ Len(pipeline_out.rows) = Len(source.rows)
        /\ \A i \in 1..Len(source.rows) :
            /\ pipeline_out.index[i] = i - 1
            /\ pipeline_out.rows[i]["sender"] = source.rows[i].sender
            /\ pipeline_out.rows[i]["subject"] = source.rows[i].subject
            /\ pipeline_out.rows[i]["body"] = source.rows[i].body
            /\ DOMAIN pipeline_out.rows[i] =
                  {"sender", "subject", "body", "priority", "category", "response"}
        /\ source.rows = <<>> =>
            /\ pipeline_out.rows = <<>>
            /\ \E k \in 1..Len(stdout) : stdout[k] = "No data to process. Exiting."
            /\ classified = 0
            /\ calls = <<>>

\* three records processed, two of them the same record
C5_Witness ==
    /\ pc = "sort"
    /\ Len(source.rows) = 3
    /\ source.rows[1] = source.rows[3]
    /\ Len(pipeline_out.rows) = 3

(* C6: a load failure is not fatal: the constructor takes an empty frame,
   process_emails reports that there is nothing to process, and main runs
   to its end without raising. *)
C6_LoadFailureNotFatal ==
    ~source.ok =>
        /\ pc # "crashed"
        /\ Processed =>
              \E k \in 1..Len(stdout) : stdout[k] = "No data to process. Exiting."

TierRank(p) == CASE p = "High" -> 1 [] p = "Medium" -> 2 [] p = "Low" -> 3

(* C7: what the renderer gets is a permutation of the pipeline's output, in
   the order High, then Medium, then Low: no record of a later tier comes
   before a record of an earlier one. *)
C7_RenderedByTier ==
    pc = "done" =>
        /\ Len(rendered) = Len(pipeline_out.rows)
        /\ \A label \in 0..(Len(rendered) - 1) :
              Cardinality({i \in 1..Len(rendered) : df.index[i] = label}) = 1
        /\ \A i \in 1..Len(rendered) :
              \A c \in DOMAIN rendered[i] :
                  rendered[i][c] = pipeline_out.rows[df.index[i] + 1][c]
        /\ \A i, j \in 1..Len(rendered) :
              i < j => TierRank(rendered[i]["priority"])
                          <= TierRank(rendered[j]["priority"])

\* priorities Medium, High, Low in input order were rendered High, Medium, Low
C7_Witness ==
    /\ pc = "done"
    /\ Len(rendered) = 3
    /\ pipeline_out.rows[1]["priority"] = "Medium"
    /\ pipeline_out.rows[2]["priority"] = "High"
    /\ pipeline_out.rows[3]["priority"] = "Low"
    /\ rendered[1]["priority"] = "High"
    /\ rendered[2]["priority"] = "Medium"
    /\ rendered[3]["priority"] = "Low"

(* C8: the sort is stable: two records of equal priority are rendered in the
   order they have in the pipeline's output. *)
C8_SortStable ==
    pc \in {"render", "done"} =>
        \A i, j \in 1..Len(df.rows) :
            (i < j /\ df.rows[i]["priority"] = df.rows[j]["priority"])
                => df.index[i] < df.index[j]

(* C9: every invocation of _get_ai_response eventually returns: the provider
   call is bounded by a timeout, after which it counts as failed. *)
C9_EveryCallReturns == (pc = "await") ~> (pc # "await")

(* C10: each invocation of _get_ai_response makes exactly one provider call,
   with no retry after a failure and no caching: a run over N > 0 records
   makes N calls, one per record in input order. *)
C10_OneCallPerRecord ==
    /\ \A k \in 1..Len(calls) :
          /\ calls[k].row = k
          /\ calls[k].context = source.rows[k].body
          /\ calls[k].prompt =
                "Draft a response to the following email from "
                    \o source.rows[k].sender \o " regarding '"
                    \o source.rows[k].subject \o "':"
    /\ Len(replies) <= Len(calls)
    /\ Len(calls) <= Len(source.rows)
    /\ (Processed /\ source.rows # <<>>) => Len(calls) = Len(source.rows)

\* three records, the first two identical, the first call failed: three calls
C10_Witness ==
    /\ pc = "sort"
    /\ Len(source.rows) = 3
    /\ source.rows[1] = source.rows[2]
    /\ Failed(replies[1])
    /\ Len(calls) = 3

=============================================================================
